---------------------------- MODULE Spec2Model ----------------------------
(***************************************************************************)
(* The three command-line utilities of the repository as one state        *)
(* machine: pptx_to_pdf_converter.py, pptx_to_images.py and merge_pptx.py. *)
(* Each run executes one program (prog); the external world (file system,  *)
(* subprocess outcomes, user input) is drawn nondeterministically at the   *)
(* step that consults it.                                                  *)
(*                                                                         *)
(* Text is a sequence of pieces.  A whitespace character is always a piece *)
(* of its own; text that is examined character by character (prefixes,     *)
(* suffixes, digits, case) is written one character per piece.             *)
(***************************************************************************)
EXTENDS Integers, Sequences, FiniteSets, TLC

\* ------------------------------------------------------------------ bounds

\* Longest directory listing returned by glob.
MaxFiles == 2

\* Most slides a listed presentation holds.
MaxSlides == 2

\* ------------------------------------------------------------ Python values

\* Python's None and a Python str, kept apart ('' is a str, not None).
None == [isNone |-> TRUE, s |-> <<>>]

Str(s) == [isNone |-> FALSE, s |-> s]

\* Truth value of an Optional[str]: None and '' are falsy.
Truthy(v) == ~v.isNone /\ v.s # <<>>

Whitespace == {" ", "\n", "\t", "\r"}

RECURSIVE LStrip(_)
LStrip(s) == IF s # <<>> /\ Head(s) \in Whitespace THEN LStrip(Tail(s)) ELSE s

RECURSIVE RStrip(_)
RStrip(s) ==
    IF s # <<>> /\ s[Len(s)] \in Whitespace
    THEN RStrip(SubSeq(s, 1, Len(s) - 1))
    ELSE s

\* str.strip()
Strip(s) == RStrip(LStrip(s))

\* str.split('\n')[0]
RECURSIVE FirstLine(_)
FirstLine(s) ==
    IF s = <<>> \/ Head(s) = "\n" THEN <<>> ELSE <<Head(s)>> \o FirstLine(Tail(s))

\* str.startswith(prefix)
StartsWith(s, prefix) ==
    Len(s) >= Len(prefix) /\ SubSeq(s, 1, Len(prefix)) = prefix

\* str.endswith(suffix)
EndsWith(s, suffix) ==
    Len(s) >= Len(suffix) /\ SubSeq(s, Len(s) - Len(suffix) + 1, Len(s)) = suffix

\* --------------------------------------------------------- find_libreoffice

Systems == {"Windows", "Darwin", "Linux"}

possible_paths(sys) ==
    CASE sys = "Windows" ->
           << <<"C:\\Program", " ", "Files\\LibreOffice\\program\\soffice.exe">>,
              <<"C:\\Program", " ", "Files", " ", "(x86)\\LibreOffice\\program\\soffice.exe">>,
              <<"C:\\Program", " ", "Files\\LibreOffice", " ", "7\\program\\soffice.exe">> >>
      [] sys = "Darwin" ->
           << <<"/Applications/LibreOffice.app/Contents/MacOS/soffice">> >>
      [] OTHER ->
           << <<"/usr/bin/soffice">>, <<"/usr/bin/libreoffice">> >>

\* The command that looks a tool up in PATH.
WhichCmd(sys) == IF sys # "Windows" THEN "which" ELSE "where"

\* What the which/where subprocess can do: fail to launch (raise), or exit
\* with a return code and its stdout.  A lookup that succeeds prints one
\* path per line.
WhichStdouts ==
    { <<>>,
      <<"/opt/lo/soffice", "\n">>,
      <<"/opt/lo/soffice", "\n", "/snap/bin/soffice", "\n">>,
      <<"C:\\Tools\\LibreOffice", " ", "24\\soffice.exe", "\n">> }

WhichOutcomes ==
    { [kind |-> "raise", rc |-> 0, stdout |-> <<>>] }
      \cup { [kind |-> "exit", rc |-> 1, stdout |-> <<>>] }
      \cup { [kind |-> "exit", rc |-> 0, stdout |-> o] : o \in WhichStdouts }

\* Index of the first candidate that os.path.exists accepts, 0 if none.
RECURSIVE FirstExisting(_, _, _)
FirstExisting(paths, exists, i) ==
    IF i > Len(paths) THEN 0
    ELSE IF paths[i] \in exists THEN i
    ELSE FirstExisting(paths, exists, i + 1)

\* find_libreoffice without the returncode test on the which/where lookup.
find_libreoffice_ignores_rc(sys, exists, which) ==
    LET k == FirstExisting(possible_paths(sys), exists, 1) IN
    IF k # 0 THEN Str(possible_paths(sys)[k])
    ELSE IF which.kind = "raise" THEN None
    ELSE Str(FirstLine(Strip(which.stdout)))

\* find_libreoffice(): the candidate list in order, then PATH, then None.
find_libreoffice(sys, exists, which) ==
    LET k == FirstExisting(possible_paths(sys), exists, 1) IN
    IF k # 0 THEN Str(possible_paths(sys)[k])
    ELSE IF which.kind = "raise" THEN None
    ELSE IF which.rc = 0 THEN Str(FirstLine(Strip(which.stdout)))
    ELSE None

\* ------------------------------------------------------------------- state

VARIABLES
    prog,           \* which script runs: "pdf", "images" or "merge"
    pc,             \* position in main
    exit_status,    \* -1 while running, else the process exit status
    system,         \* platform.system()
    probes,         \* os.path.exists probes made by find_libreoffice: <<path, found>>
    which_obs,      \* outcome of the which/where lookup, NotRun if not made
    soffice_path,   \* main's soffice_path
    glob_result,    \* script_dir.glob("*.pptx")
    pptx_files,     \* main's pptx_files
    idx,            \* position of the for loop over pptx_files
    success_count,  \* main's success_count
    calls,          \* files passed to the convert function, in call order
    returns,        \* what those calls returned
    summary,        \* the printed "Conversion complete" line, NoSummary before
    last_child,     \* pptx_to_pdf: the child the latest convert_pptx_to_pdf call ran
    image_format,   \* pptx_to_images main: "png" or "jpg" once chosen
    resolution,     \* pptx_to_images main: DPI once entered
    dirs,           \* directories created so far
    cpc,            \* position inside convert_pptx_to_images, "idle" outside
    trace,          \* subprocesses run by the current convert_pptx_to_images call
    pdf_present,    \* whether the intermediate PDF is on disk
    deck,           \* merge: len(Presentation(f).slides) of each listed file, at least 1
    choice,         \* merge: the menu choice get_user_choice acted on
    ordered_files,  \* merge: get_user_choice's ordered_files
    add_separator,  \* merge: get_user_choice's add_separator
    output_name,    \* merge: main's output_name
    out_exists,     \* merge: what output_file.exists() answered
    overwrite,      \* merge: the answer typed at the overwrite prompt
    merge_called,   \* merge: merge_presentations has been entered
    n_layouts,      \* merge: len(merged_prs.slide_layouts)
    merged,         \* merge: slides of merged_prs
    total_slides,   \* merge: merge_presentations' total_slides
    mi,             \* merge: position of the loop over pptx_files[1:]
    errors,         \* merge: positions whose "Error adding" handler ran
    saved,          \* merge: merged_prs.save(output_file) completed
    merge_ret,      \* merge: what merge_presentations returned
    console         \* merge: closing messages main printed

findVars == <<system, probes, which_obs, soffice_path>>

loopVars == <<glob_result, pptx_files, idx, success_count, calls, returns, summary>>

imgVars == <<last_child, image_format, resolution, dirs, cpc, trace, pdf_present>>

mergeVars == <<deck, choice, ordered_files, add_separator, output_name, out_exists,
               overwrite, merge_called, n_layouts, merged, total_slides, mi,
               errors, saved, merge_ret, console>>

vars == <<prog, pc, exit_status, findVars, loopVars, imgVars, mergeVars>>

NotRun == [kind |-> "not_run", rc |-> 0, stdout |-> <<>>]

NoSummary == [printed |-> FALSE, success |-> 0, total |-> 0]

Range(f) == { f[i] : i \in DOMAIN f }

\* ------------------------------------------------------------- file names

Ext == <<".", "p", "p", "t", "x">>

\* Names a directory may hold that match *.pptx; "~$..." is an Office lock file.
DirNames == { <<"a">> \o Ext, <<"b">> \o Ext, <<"~", "$", "a">> \o Ext }

\* glob yields the matching names in arbitrary order, each once.
Listings ==
    { l \in UNION { [1..n -> DirNames] : n \in 0..MaxFiles } :
        \A i, j \in DOMAIN l : i # j => l[i] # l[j] }

\* [f for f in pptx_files if not f.name.startswith("~$")]
RECURSIVE FilterTemp(_)
FilterTemp(l) ==
    IF l = <<>> THEN <<>>
    ELSE IF StartsWith(Head(l), <<"~", "$">>) THEN FilterTemp(Tail(l))
    ELSE <<Head(l)>> \o FilterTemp(Tail(l))

\* ---------------------------------------------------- main: find LibreOffice

\* The probes find_libreoffice makes on the candidate list: it stops at the
\* first one that exists.
FindProbes(sys, exists) ==
    LET paths == possible_paths(sys)
        k == FirstExisting(paths, exists, 1)
        n == IF k = 0 THEN Len(paths) ELSE k
    IN [i \in 1..n |-> <<paths[i], paths[i] \in exists>>]

\* soffice_path = find_libreoffice(); if not soffice_path: ...; sys.exit(1)
MainFind(p) ==
    /\ prog = p
    /\ pc = "start"
    /\ \E sys \in Systems, which \in WhichOutcomes :
         \E exists \in SUBSET Range(possible_paths(sys)) :
            LET path == find_libreoffice(sys, exists, which) IN
            /\ system' = sys
            /\ probes' = FindProbes(sys, exists)
            /\ which_obs' = IF FirstExisting(possible_paths(sys), exists, 1) = 0
                            THEN which ELSE NotRun
            /\ soffice_path' = path
            /\ IF ~Truthy(path)
               THEN pc' = "exit" /\ exit_status' = 1
               ELSE pc' = "glob" /\ UNCHANGED exit_status
    /\ UNCHANGED <<prog, loopVars>>

\* pptx_files = list(script_dir.glob("*.pptx")), the "~$" filter, and the
\* early return when nothing is left.
MainGlob(p, next) ==
    /\ prog = p
    /\ pc = "glob"
    /\ \E l \in Listings :
         /\ glob_result' = l
         /\ pptx_files' = FilterTemp(l)
         /\ IF FilterTemp(l) = <<>>
            THEN pc' = "done" /\ exit_status' = 0
            ELSE pc' = next /\ UNCHANGED exit_status
    /\ UNCHANGED <<prog, findVars, calls, returns, summary>>

\* The "Conversion complete: {success_count}/{len(pptx_files)}" line, once
\* the for loop has run out.
MainSummary(p) ==
    /\ prog = p
    /\ pc = "convert"
    /\ idx > Len(pptx_files)
    /\ summary' = [printed |-> TRUE, success |-> success_count,
                   total |-> Len(pptx_files)]
    /\ pc' = "done"
    /\ exit_status' = 0
    /\ UNCHANGED <<prog, findVars, glob_result, pptx_files, idx, success_count,
                   calls, returns>>

\* ------------------------------------------------- pptx_to_pdf_converter.py

\* How a child process started by subprocess.run behaves: whether it could
\* be launched at all (else OSError and the like), how long it runs and the
\* return code it exits with.
RunTimes == {5, 90, 150}

ChildBehaviours ==
    { [launched |-> FALSE, secs |-> 0, rc |-> 0] }
      \cup { [launched |-> TRUE, secs |-> t, rc |-> r] : t \in RunTimes, r \in {0, 1} }

\* What subprocess.run(cmd, timeout=timeout) gives the caller: an exception
\* for a failed launch, TimeoutExpired for a child still running after
\* `timeout` seconds, else the completed process with its return code.
Observe(c, timeout) ==
    IF ~c.launched THEN [kind |-> "raise", rc |-> 0]
    ELSE IF c.secs > timeout THEN [kind |-> "timeout", rc |-> 0]
    ELSE [kind |-> "exit", rc |-> c.rc]

\* timeout=60 of convert_pptx_to_pdf
PdfTimeout == 60

\* convert_pptx_to_pdf with the 120-second timeout of the image converter.
convert_pptx_to_pdf_long_timeout(c) ==
    LET result == Observe(c, 2 * PdfTimeout) IN
    IF result.kind = "exit" THEN [raised |-> FALSE, ret |-> (result.rc = 0)]
    ELSE [raised |-> FALSE, ret |-> FALSE]

\* convert_pptx_to_pdf: raised says an exception left the function.
convert_pptx_to_pdf(c) ==
    LET result == Observe(c, PdfTimeout) IN
    IF result.kind = "exit" THEN [raised |-> FALSE, ret |-> (result.rc = 0)]
    ELSE IF result.kind = "timeout" THEN [raised |-> FALSE, ret |-> FALSE]
    ELSE [raised |-> FALSE, ret |-> FALSE]

PdfMainFind == MainFind("pdf") /\ UNCHANGED <<imgVars, mergeVars>>

\* The listing, then success_count = 0 ahead of the loop.
PdfMainGlob ==
    /\ MainGlob("pdf", "convert")
    /\ IF pptx_files' # <<>>
       THEN idx' = 1 /\ success_count' = 0
       ELSE UNCHANGED <<idx, success_count>>
    /\ UNCHANGED <<imgVars, mergeVars>>

\* One pass of: if convert_pptx_to_pdf(pptx_file, ...): success_count += 1
PdfMainConvert ==
    /\ prog = "pdf"
    /\ pc = "convert"
    /\ idx <= Len(pptx_files)
    /\ \E c \in ChildBehaviours :
         LET r == convert_pptx_to_pdf(c) IN
         /\ calls' = Append(calls, pptx_files[idx])
         /\ last_child' = c
         /\ IF r.raised
            THEN /\ pc' = "crashed"
                 /\ exit_status' = 1
                 /\ UNCHANGED <<returns, success_count, idx>>
            ELSE /\ returns' = Append(returns, r.ret)
                 /\ success_count' = IF r.ret THEN success_count + 1 ELSE success_count
                 /\ idx' = idx + 1
                 /\ UNCHANGED <<pc, exit_status>>
    /\ UNCHANGED <<prog, findVars, glob_result, pptx_files, summary>>
    /\ UNCHANGED <<image_format, resolution, dirs, cpc, trace, pdf_present, mergeVars>>

PdfMainSummary == MainSummary("pdf") /\ UNCHANGED <<imgVars, mergeVars>>

\* --------------------------------------------------------- pptx_to_images.py

Digits == {"0", "1", "2", "3", "4", "5", "6", "7", "8", "9"}

DigitVal(c) ==
    CASE c = "0" -> 0 [] c = "1" -> 1 [] c = "2" -> 2 [] c = "3" -> 3
      [] c = "4" -> 4 [] c = "5" -> 5 [] c = "6" -> 6 [] c = "7" -> 7
      [] c = "8" -> 8 [] c = "9" -> 9

RECURSIVE DigitsVal(_, _)
DigitsVal(s, acc) ==
    IF s = <<>> THEN acc ELSE DigitsVal(Tail(s), 10 * acc + DigitVal(Head(s)))

\* int(x) on text written one character per piece: an optional sign, then
\* digits; ok = FALSE stands for ValueError.
ParseInt(s) ==
    LET signed == s # <<>> /\ Head(s) \in {"-", "+"}
        body == IF signed THEN Tail(s) ELSE s
    IN IF body = <<>> \/ \E i \in DOMAIN body : body[i] \notin Digits
       THEN [ok |-> FALSE, val |-> 0]
       ELSE [ok |-> TRUE,
             val |-> IF signed /\ Head(s) = "-"
                     THEN 0 - DigitsVal(body, 0) ELSE DigitsVal(body, 0)]

\* Answers typed at the "Enter your choice (1-2, default: 1)" prompt.
FormatInputs == { <<>>, <<"1">>, <<" ", "2">>, <<"3">>, <<"p", "n", "g">> }

\* Answers typed at the "Enter resolution (default: 150)" prompt.
ResolutionInputs ==
    { <<>>, <<"9", "6">>, <<"3", "0", "0", " ">>, <<"4", "9">>, <<"6", "0", "1">>,
      <<"h", "i">> }

DefaultResolution == 150

MinResolution == 50

MaxResolution == 600

ImgMainFind == MainFind("images") /\ UNCHANGED <<imgVars, mergeVars>>

ImgMainGlob ==
    /\ MainGlob("images", "format")
    /\ UNCHANGED <<idx, success_count, imgVars, mergeVars>>

\* while True: format_choice = input(...).strip() ...
ImgFormatPrompt ==
    /\ prog = "images"
    /\ pc = "format"
    /\ \E typed \in FormatInputs :
         LET format_choice == Strip(typed) IN
         IF format_choice = <<>> \/ format_choice = <<"1">>
         THEN image_format' = "png" /\ pc' = "resolution"
         ELSE IF format_choice = <<"2">>
         THEN image_format' = "jpg" /\ pc' = "resolution"
         ELSE UNCHANGED <<image_format, pc>>
    /\ UNCHANGED <<prog, exit_status, findVars, loopVars>>
    /\ UNCHANGED <<last_child, resolution, dirs, cpc, trace, pdf_present, mergeVars>>

\* while True: res_input = input(...).strip() ...; resolution is assigned
\* before the range test, so a rejected number stays in it until the next try.
ImgResolutionPrompt ==
    /\ prog = "images"
    /\ pc = "resolution"
    /\ \E typed \in ResolutionInputs :
         LET res_input == Strip(typed)
             n == ParseInt(res_input)
         IN IF res_input = <<>>
            THEN resolution' = DefaultResolution /\ pc' = "mkdir"
            ELSE IF ~n.ok THEN UNCHANGED <<resolution, pc>>
            ELSE /\ resolution' = n.val
                 /\ pc' = IF MinResolution <= n.val /\ n.val <= MaxResolution
                          THEN "mkdir" ELSE "resolution"
    /\ UNCHANGED <<prog, exit_status, findVars, loopVars>>
    /\ UNCHANGED <<last_child, image_format, dirs, cpc, trace, pdf_present, mergeVars>>

\* output_dir.mkdir(exist_ok=True), outside any try: an OSError ends the
\* process with a traceback.  Then success_count = 0 ahead of the loop.
ImgMainMkdir ==
    /\ prog = "images"
    /\ pc = "mkdir"
    /\ \E ok \in BOOLEAN :
         IF ok
         THEN /\ dirs' = dirs \cup {<<"slide_images">>}
              /\ success_count' = 0
              /\ idx' = 1
              /\ pc' = "convert"
              /\ UNCHANGED exit_status
         ELSE /\ pc' = "crashed"
              /\ exit_status' = 1
              /\ UNCHANGED <<dirs, success_count, idx>>
    /\ UNCHANGED <<prog, findVars, glob_result, pptx_files, calls, returns, summary>>
    /\ UNCHANGED <<last_child, image_format, resolution, cpc, trace, pdf_present, mergeVars>>

\* timeout=120 of the three subprocess.run calls of convert_pptx_to_images
ImgTimeout == 120

\* pptx_path.stem
Stem(name) == IF EndsWith(name, Ext) THEN SubSeq(name, 1, Len(name) - Len(Ext)) ELSE name

\* One subprocess.run of the current call, as the call saw it.
Ran(cmd, o) == [cmd |-> cmd, kind |-> o.kind, rc |-> o.rc]

\* The loop counting every call, not only those that returned True.
ImgReturn_counts_every_call(ret) ==
    /\ returns' = Append(returns, ret)
    /\ success_count' = success_count + 1
    /\ idx' = idx + 1
    /\ cpc' = "idle"

\* The call returns ret to main's loop: if ...: success_count += 1
ImgReturn(ret) ==
    /\ returns' = Append(returns, ret)
    /\ success_count' = IF ret THEN success_count + 1 ELSE success_count
    /\ idx' = idx + 1
    /\ cpc' = "idle"

InCall(at) == prog = "images" /\ pc = "convert" /\ cpc = at

callFrame == <<prog, pc, exit_status, findVars, glob_result, pptx_files, summary,
               image_format, resolution, mergeVars>>

\* Entry of convert_pptx_to_images: image_dir.mkdir(exist_ok=True).  A
\* failure is caught by the outer except Exception.
ConvCallStart ==
    /\ InCall("idle")
    /\ idx <= Len(pptx_files)
    /\ calls' = Append(calls, pptx_files[idx])
    /\ trace' = <<>>
    /\ pdf_present' = FALSE
    /\ \E ok \in BOOLEAN :
         IF ok
         THEN /\ dirs' = dirs \cup {Stem(pptx_files[idx])}
              /\ cpc' = "soffice"
              /\ UNCHANGED <<returns, success_count, idx>>
         ELSE /\ ImgReturn(FALSE)
              /\ UNCHANGED dirs
    /\ UNCHANGED <<callFrame, last_child>>

\* subprocess.run(cmd_pdf, timeout=120) and the returncode test.  A timeout
\* or a failed launch reaches the outer handlers.
ConvSoffice ==
    /\ InCall("soffice")
    /\ \E c \in ChildBehaviours :
         LET o == Observe(c, ImgTimeout) IN
         /\ trace' = Append(trace, Ran(<<"soffice">>, o))
         /\ IF o.kind = "exit" /\ o.rc = 0
            THEN cpc' = "pdf_exists" /\ UNCHANGED <<returns, success_count, idx>>
            ELSE ImgReturn(FALSE)
    /\ UNCHANGED <<callFrame, calls, dirs, pdf_present, last_child>>

\* if not pdf_file.exists(): return False
ConvPdfExists ==
    /\ InCall("pdf_exists")
    /\ \E e \in BOOLEAN :
         /\ pdf_present' = e
         /\ IF e
            THEN cpc' = "check_pdftoppm" /\ UNCHANGED <<returns, success_count, idx>>
            ELSE ImgReturn(FALSE)
    /\ UNCHANGED <<callFrame, calls, dirs, trace, last_child>>

\* What the which/where lookup of a rasterizer can do (no timeout is set).
CheckOutcomes ==
    { [kind |-> "exit", rc |-> 0], [kind |-> "exit", rc |-> 1],
      [kind |-> "raise", rc |-> 0] }

\* check_result = subprocess.run(check_cmd); the bare except around the
\* method swallows a failure and control falls to `after`.
ConvCheck(tool, run, after) ==
    /\ \E o \in CheckOutcomes :
         /\ trace' = Append(trace, Ran(<<WhichCmd(system), tool>>, o))
         /\ cpc' = IF o.kind = "exit" /\ o.rc = 0 THEN run ELSE after
    /\ UNCHANGED <<callFrame, calls, returns, success_count, idx, dirs,
                   pdf_present, last_child>>

\* result = subprocess.run(<rasterizer>, timeout=120); a non-zero exit
\* leaves the if, a timeout or failed launch is swallowed by the bare except.
ConvRun(tool, cleanup, after) ==
    /\ \E c \in ChildBehaviours :
         LET o == Observe(c, ImgTimeout) IN
         /\ trace' = Append(trace, Ran(<<tool>>, o))
         /\ cpc' = IF o.kind = "exit" /\ o.rc = 0 THEN cleanup ELSE after
    /\ UNCHANGED <<callFrame, calls, returns, success_count, idx, dirs, pdf_present,
                   last_child>>

\* pdf_file.unlink() and return True; an OSError from unlink is swallowed by
\* the same bare except and control falls to `after`.
ConvCleanup(after) ==
    /\ \E ok \in BOOLEAN :
         IF ok
         THEN /\ pdf_present' = FALSE
              /\ ImgReturn(TRUE)
         ELSE /\ cpc' = after
              /\ UNCHANGED <<pdf_present, returns, success_count, idx>>
    /\ UNCHANGED <<callFrame, calls, dirs, trace, last_child>>

ConvCheckPdftoppm ==
    /\ InCall("check_pdftoppm")
    /\ ConvCheck("pdftoppm", "run_pdftoppm", "check_convert")

ConvRunPdftoppm ==
    /\ InCall("run_pdftoppm")
    /\ ConvRun("pdftoppm", "cleanup_pdftoppm", "check_convert")

ConvCleanupPdftoppm ==
    /\ InCall("cleanup_pdftoppm")
    /\ ConvCleanup("check_convert")

ConvCheckConvert ==
    /\ InCall("check_convert")
    /\ ConvCheck("convert", "run_convert", "keep_pdf")

ConvRunConvert ==
    /\ InCall("run_convert")
    /\ ConvRun("convert", "cleanup_convert", "keep_pdf")

ConvCleanupConvert ==
    /\ InCall("cleanup_convert")
    /\ ConvCleanup("keep_pdf")

\* "PDF created but image conversion tools not found" ... return True
ConvKeepPdf ==
    /\ InCall("keep_pdf")
    /\ ImgReturn(TRUE)
    /\ UNCHANGED <<callFrame, calls, dirs, trace, pdf_present, last_child>>

ImgMainSummary == MainSummary("images") /\ cpc = "idle" /\ UNCHANGED <<imgVars, mergeVars>>

\* -------------------------------------------------------------- merge_pptx.py

\* Code points of the characters file names are written with.
CharCode(c) ==
    CASE c = "$" -> 36 [] c = "." -> 46 [] c = "a" -> 97 [] c = "b" -> 98
      [] c = "p" -> 112 [] c = "t" -> 116 [] c = "x" -> 120 [] c = "~" -> 126

\* a < b for the string comparison sorted() uses.
RECURSIVE TextLess(_, _)
TextLess(a, b) ==
    IF b = <<>> THEN FALSE
    ELSE IF a = <<>> THEN TRUE
    ELSE IF Head(a) = Head(b) THEN TextLess(Tail(a), Tail(b))
    ELSE CharCode(Head(a)) < CharCode(Head(b))

\* sorted(pptx_files)
RECURSIVE Sorted(_)
Sorted(l) ==
    IF l = <<>> THEN <<>>
    ELSE LET m == CHOOSE i \in DOMAIN l : \A j \in DOMAIN l : ~TextLess(l[j], l[i])
         IN <<l[m]>> \o Sorted(SubSeq(l, 1, m - 1) \o SubSeq(l, m + 1, Len(l)))

\* str.split(): the maximal runs of non-whitespace.
RECURSIVE SplitWs(_)
SplitWs(s) ==
    LET t == LStrip(s) IN
    IF t = <<>> THEN <<>>
    ELSE LET stops == { i \in DOMAIN t : t[i] \in Whitespace }
             n == IF stops = {} THEN Len(t) + 1
                  ELSE CHOOSE i \in stops : \A j \in stops : i <= j
         IN <<SubSeq(t, 1, n - 1)>> \o SplitWs(SubSeq(t, n, Len(t)))

LowerChar(c) ==
    CASE c = "Y" -> "y" [] c = "E" -> "e" [] c = "S" -> "s" [] c = "N" -> "n"
      [] c = "O" -> "o" [] OTHER -> c

\* str.lower()
Lower(s) == [i \in DOMAIN s |-> LowerChar(s[i])]

\* indices = [int(x) - 1 for x in text.split()];
\* ordered_files = [pptx_files[i] for i in indices]
\* ok = FALSE stands for the ValueError or IndexError the loop catches.  A
\* Python list index i is valid for -len <= i < len and counts from the end
\* when negative.
SelectFiles(files, text) ==
    LET toks == SplitWs(text)
        n == Len(files)
        ints == [k \in DOMAIN toks |-> ParseInt(toks[k])]
        index(k) == ints[k].val - 1
    IN IF \E k \in DOMAIN toks : ~ints[k].ok THEN [ok |-> FALSE, files |-> <<>>]
       ELSE IF \E k \in DOMAIN toks : index(k) < 0 - n \/ index(k) >= n
       THEN [ok |-> FALSE, files |-> <<>>]
       ELSE [ok |-> TRUE,
             files |-> [k \in DOMAIN toks |->
                          files[IF index(k) < 0 THEN index(k) + n + 1 ELSE index(k) + 1]]]

\* Answers typed at "Enter your choice (1-3)".
ChoiceInputs == { <<"1">>, <<"2">>, <<" ", "3">>, <<"4">>, <<>> }

\* Answers typed at the "> " prompt for file numbers.
OrderInputs ==
    { <<"2", " ", "1">>, <<"1", " ", "2">>, <<"1", " ", "1">>, <<"1">>, <<>>,
      <<"0", " ", "1">>, <<"x", " ", "1">>, <<"3", " ", "1">>,
      <<"1", " ", " ", "2", " ", "1">>, <<"-", "1", " ", "2">> }

\* Answers typed at the y/n prompts.
YesNoInputs == { <<"y">>, <<" ", "Y", "E", "S">>, <<"n">>, <<"N", "o">>, <<>>, <<"o", "k">> }

Yes == { <<"y">>, <<"y", "e", "s">> }

No == { <<"n">>, <<"n", "o">> }

\* Answers typed at "Enter output filename".
OutputInputs ==
    { <<>>, <<" ", "o", "u", "t", " ">>, <<"a">> \o Ext, <<"b", ".", "p", "p", "t">> }

default_output == <<"merged_presentation">> \o Ext

noMerge == <<merge_called, n_layouts, merged, total_slides, mi, errors, saved, merge_ret>>

convOnly == <<findVars, imgVars, idx, success_count, calls, returns, summary>>

\* main up to get_user_choice: the listing, the "~$" filter and the test
\* for at least two files.
MergeMainGlob ==
    /\ prog = "merge"
    /\ pc = "start"
    /\ \E l \in Listings :
         /\ glob_result' = l
         /\ pptx_files' = FilterTemp(l)
         /\ \E d \in [Range(FilterTemp(l)) -> 1..MaxSlides] : deck' = d
         /\ IF Len(FilterTemp(l)) < 2
            THEN /\ pc' = "done"
                 /\ exit_status' = 0
                 /\ console' = Append(console, "Error: Need at least 2 PowerPoint files to merge.")
            ELSE /\ pc' = "choice"
                 /\ UNCHANGED <<exit_status, console>>
    /\ UNCHANGED <<prog, convOnly, choice, ordered_files, add_separator, output_name,
                   out_exists, overwrite, noMerge>>

\* get_user_choice, first loop: one round of the menu.
MergeChoice ==
    /\ prog = "merge"
    /\ pc = "choice"
    /\ \E typed \in ChoiceInputs, order_input \in OrderInputs :
         LET c == Strip(typed)
             sel == SelectFiles(pptx_files, Strip(order_input))
         IN /\ choice' = c
            /\ IF c = <<"1">>
               THEN ordered_files' = Sorted(pptx_files) /\ pc' = "separator"
               ELSE IF c \in {<<"2">>, <<"3">>} /\ sel.ok
               THEN ordered_files' = sel.files /\ pc' = "separator"
               ELSE UNCHANGED <<ordered_files, pc>>
    /\ UNCHANGED <<prog, exit_status, convOnly, glob_result, pptx_files, deck,
                   add_separator, output_name, out_exists, overwrite, noMerge, console>>

\* get_user_choice, second loop, its return, and main's test that at least
\* two files were selected.
MergeSeparatorPrompt ==
    /\ prog = "merge"
    /\ pc = "separator"
    /\ \E typed \in YesNoInputs :
         LET sep_choice == Lower(Strip(typed)) IN
         IF sep_choice \in Yes \cup No
         THEN /\ add_separator' = (sep_choice \in Yes)
              /\ IF Len(ordered_files) < 2
                 THEN /\ pc' = "done"
                      /\ exit_status' = 0
                      /\ console' = Append(console, "Error: Need to select at least 2 files to merge.")
                 ELSE /\ pc' = "output"
                      /\ UNCHANGED <<exit_status, console>>
         ELSE UNCHANGED <<add_separator, pc, exit_status, console>>
    /\ UNCHANGED <<prog, convOnly, glob_result, pptx_files, deck, choice, ordered_files,
                   output_name, out_exists, overwrite, noMerge>>

\* output_name from the prompt, the default, the ".pptx" suffix, and
\* output_file.exists().  A name the listing holds is on disk.
MergeOutputName ==
    /\ prog = "merge"
    /\ pc = "output"
    /\ \E typed \in OutputInputs, e \in BOOLEAN :
         LET stripped == Strip(typed)
             named == IF stripped = <<>> THEN default_output ELSE stripped
             name == IF ~EndsWith(named, Ext) THEN named \o Ext ELSE named
         IN /\ name \in Range(glob_result) => e
            /\ output_name' = name
            /\ out_exists' = e
            /\ pc' = IF e THEN "overwrite" ELSE "merge"
    /\ UNCHANGED <<prog, exit_status, convOnly, glob_result, pptx_files, deck, choice,
                   ordered_files, add_separator, overwrite, noMerge, console>>

\* The overwrite test cancelling only on an explicit no.
OverwriteAccepted_unless_no(answer) == Lower(Strip(answer)) \notin No

\* if overwrite not in ['y', 'yes']
OverwriteAccepted(answer) == Lower(Strip(answer)) \in Yes

\* The "already exists. Overwrite? (y/n)" prompt.
MergeOverwritePrompt ==
    /\ prog = "merge"
    /\ pc = "overwrite"
    /\ \E typed \in YesNoInputs :
         /\ overwrite' = [asked |-> TRUE, answer |-> typed]
         /\ IF OverwriteAccepted(typed)
            THEN /\ pc' = "merge"
                 /\ UNCHANGED <<exit_status, console>>
            ELSE /\ pc' = "done"
                 /\ exit_status' = 0
                 /\ console' = Append(console, "Merge cancelled.")
    /\ UNCHANGED <<prog, convOnly, glob_result, pptx_files, deck, choice, ordered_files,
                   add_separator, output_name, out_exists, noMerge>>

\* ----------------------------------------------------- merge_presentations

\* Slides of merged_prs: those the base file brought, separator slides and
\* slides added for a source slide.
BaseSlides(f, n) == [k \in 1..n |-> [kind |-> "base", file |-> f, n |-> k]]

SeparatorSlide(f) == [kind |-> "separator", file |-> f, n |-> 0]

NewSlides(f, n) == [k \in 1..n |-> [kind |-> "copy", file |-> f, n |-> k]]

\* Layout counts of a base presentation: a stripped template, the default one.
LayoutCounts == {1, 11}

\* merged_prs.slide_layouts[6]
SeparatorLayout == 6

\* merged_prs = Presentation(pptx_files[0]); total_slides = len(...).  A
\* failure reaches the outer except: return False.  Called from main, which
\* prints the closing banner.
MergeBase ==
    /\ prog = "merge"
    /\ pc = "merge"
    /\ merge_called' = TRUE
    /\ \E ok \in BOOLEAN, layouts \in LayoutCounts :
         IF ok
         THEN /\ merged' = BaseSlides(ordered_files[1], deck[ordered_files[1]])
              /\ total_slides' = deck[ordered_files[1]]
              /\ n_layouts' = layouts
              /\ mi' = 2
              /\ pc' = "merge_add"
              /\ UNCHANGED <<merge_ret, console, exit_status>>
         ELSE /\ merge_ret' = FALSE
              /\ console' = Append(console, "Merge failed. Please check the errors above.")
              /\ pc' = "done"
              /\ exit_status' = 0
              /\ UNCHANGED <<merged, total_slides, n_layouts, mi>>
    /\ UNCHANGED <<prog, convOnly, glob_result, pptx_files, deck, choice, ordered_files,
                   add_separator, output_name, out_exists, overwrite, errors, saved>>

\* Where one pass of the loop over pptx_files[1:] can raise: loading the
\* file ("load"), taking the separator layout ("layout", an IndexError when
\* the base has too few layouts), filling the separator's text box after the
\* slide was added ("textbox"), adding the slide for source slide `at`
\* ("add_slide"), moving shapes into it ("shapes"); or nowhere ("ok").
AddOutcomes(n, sep, layouts) ==
    { [stage |-> "load", at |-> 0] }
      \cup ( IF sep /\ layouts <= SeparatorLayout
             THEN { [stage |-> "layout", at |-> 0] }
             ELSE ( IF sep THEN { [stage |-> "textbox", at |-> 0] } ELSE {} )
                  \cup { [stage |-> st, at |-> j] :
                           st \in {"add_slide", "shapes"}, j \in 1..n }
                  \cup { [stage |-> "ok", at |-> n] } )

\* Slides one pass appends to merged_prs, given where it stopped.
Appended(f, sep, o) ==
    LET separator == IF sep THEN <<SeparatorSlide(f)>> ELSE <<>> IN
    CASE o.stage \in {"load", "layout"} -> <<>>
      [] o.stage = "textbox" -> separator
      [] o.stage = "add_slide" -> separator \o NewSlides(f, o.at - 1)
      [] OTHER -> separator \o NewSlides(f, o.at)

\* total_slides += 1 per completed separator and per completed source slide.
Counted(sep, o) ==
    LET separator == IF sep THEN 1 ELSE 0 IN
    CASE o.stage \in {"load", "layout", "textbox"} -> 0
      [] o.stage \in {"add_slide", "shapes"} -> separator + o.at - 1
      [] OTHER -> separator + o.at

\* One pass of: for pptx_file in pptx_files[1:]: try: ... except Exception:
\* print("Error adding ..."); continue
MergeAdd ==
    /\ prog = "merge"
    /\ pc = "merge_add"
    /\ mi <= Len(ordered_files)
    /\ LET f == ordered_files[mi] IN
       \E o \in AddOutcomes(deck[f], add_separator, n_layouts) :
         /\ merged' = merged \o Appended(f, add_separator, o)
         /\ total_slides' = total_slides + Counted(add_separator, o)
         /\ errors' = IF o.stage = "ok" THEN errors ELSE errors \cup {mi}
         /\ mi' = mi + 1
    /\ UNCHANGED <<prog, pc, exit_status, convOnly, glob_result, pptx_files, deck, choice,
                   ordered_files, add_separator, output_name, out_exists, overwrite,
                   merge_called, n_layouts, saved, merge_ret, console>>

\* merged_prs.save(str(output_file)); return True, or the outer except:
\* return False.  Then main's closing banner.
MergeSave ==
    /\ prog = "merge"
    /\ pc = "merge_add"
    /\ mi > Len(ordered_files)
    /\ \E ok \in BOOLEAN :
         /\ saved' = ok
         /\ merge_ret' = ok
         /\ console' = Append(console, IF ok THEN "Merge completed successfully!"
                                       ELSE "Merge failed. Please check the errors above.")
    /\ pc' = "done"
    /\ exit_status' = 0
    /\ UNCHANGED <<prog, convOnly, glob_result, pptx_files, deck, choice, ordered_files,
                   add_separator, output_name, out_exists, overwrite, merge_called,
                   n_layouts, merged, total_slides, mi, errors>>

\* ---------------------------------------------------------- specification

NoChild == [launched |-> FALSE, secs |-> 0, rc |-> 0]

NotAsked == [asked |-> FALSE, answer |-> <<>>]

Init ==
    /\ prog \in {"pdf", "images", "merge"}
    /\ pc = "start"
    /\ exit_status = -1
    /\ system = "unknown"
    /\ probes = <<>>
    /\ which_obs = NotRun
    /\ soffice_path = None
    /\ glob_result = <<>>
    /\ pptx_files = <<>>
    /\ idx = 0
    /\ success_count = 0
    /\ calls = <<>>
    /\ returns = <<>>
    /\ summary = NoSummary
    /\ last_child = NoChild
    /\ image_format = "unset"
    /\ resolution = 0
    /\ dirs = {}
    /\ cpc = "idle"
    /\ trace = <<>>
    /\ pdf_present = FALSE
    /\ deck = [f \in {} |-> 0]
    /\ choice = <<>>
    /\ ordered_files = <<>>
    /\ add_separator = FALSE
    /\ output_name = <<>>
    /\ out_exists = FALSE
    /\ overwrite = NotAsked
    /\ merge_called = FALSE
    /\ n_layouts = 0
    /\ merged = <<>>
    /\ total_slides = 0
    /\ mi = 0
    /\ errors = {}
    /\ saved = FALSE
    /\ merge_ret = FALSE
    /\ console = <<>>

Next ==
    \/ PdfMainFind
    \/ PdfMainGlob
    \/ PdfMainConvert
    \/ PdfMainSummary
    \/ ImgMainFind
    \/ ImgMainGlob
    \/ ImgFormatPrompt
    \/ ImgResolutionPrompt
    \/ ImgMainMkdir
    \/ ConvCallStart
    \/ ConvSoffice
    \/ ConvPdfExists
    \/ ConvCheckPdftoppm
    \/ ConvRunPdftoppm
    \/ ConvCleanupPdftoppm
    \/ ConvCheckConvert
    \/ ConvRunConvert
    \/ ConvCleanupConvert
    \/ ConvKeepPdf
    \/ ImgMainSummary
    \/ MergeMainGlob
    \/ MergeChoice
    \/ MergeSeparatorPrompt
    \/ MergeOutputName
    \/ MergeOverwritePrompt
    \/ MergeBase
    \/ MergeAdd
    \/ MergeSave

Spec == Init /\ [][Next]_vars

\* ------------------------------------------------------------------ claims

Last(q) == q[Len(q)]

Converter == prog \in {"pdf", "images"}

\* The current convert_pptx_to_images call has returned.
CallReturned == prog = "images" /\ cpc = "idle" /\ calls # <<>> /\ Len(returns) = Len(calls)

Rasterizers == { <<"pdftoppm">>, <<"convert">> }

ExitedZero(e) == e.kind = "exit" /\ e.rc = 0

\* Positions of the trace where a rasterizer ran and exited with code 0.
Rasterized == { i \in DOMAIN trace : trace[i].cmd \in Rasterizers /\ ExitedZero(trace[i]) }

\* C1: a convert_pptx_to_images call returns True if and only if LibreOffice
\* produced the PDF and a rasterizer (pdftoppm or convert) ran and exited
\* with return code 0.
C1_TrueIffRasterized ==
    CallReturned => (Last(returns) <=> (Rasterized # {}))

\* C2: convert_pptx_to_pdf never raises, and it returns True exactly when the
\* soffice child was launched, finished within the 60-second timeout and
\* exited with return code 0.
C2_PdfReturnsTrueIffExitZero ==
    prog = "pdf" =>
        /\ pc # "crashed"
        /\ Len(returns) = Len(calls)
        /\ returns # <<>> =>
             ( Last(returns) <=>
                 (last_child.launched /\ last_child.secs <= 60 /\ last_child.rc = 0) )

\* C2 witness: a call that returned True, then one that timed out with
\* return code 0 pending and returned False.
C2_Witness ==
    /\ prog = "pdf"
    /\ returns = <<TRUE, FALSE>>
    /\ last_child.launched
    /\ last_child.secs > 60
    /\ last_child.rc = 0

\* merge_presentations has returned to main.
MergeReturned == prog = "merge" /\ merge_called /\ pc = "done"

\* C3: merge_presentations returns True if and only if the slides of every
\* presentation in pptx_files were added and the result was saved.
C3_TrueIffAllAddedAndSaved ==
    MergeReturned => (merge_ret <=> (errors = {} /\ saved))

\* The slide sequence C4 describes for files[from..]: per file an optional
\* separator, then one new slide per source slide.
RECURSIVE LaterSlides(_, _, _, _)
LaterSlides(files, from, counts, sep) ==
    IF from > Len(files) THEN <<>>
    ELSE (IF sep THEN <<SeparatorSlide(files[from])>> ELSE <<>>)
           \o NewSlides(files[from], counts[files[from]])
           \o LaterSlides(files, from + 1, counts, sep)

\* C4: the merged presentation holds the slides of pptx_files[0] in order,
\* then for each later file in list order one new slide per source slide,
\* preceded by exactly one separator slide when add_separator is True and by
\* none when it is False.
C4_MergedSlideSequence ==
    (MergeReturned /\ merge_ret) =>
        merged = BaseSlides(ordered_files[1], deck[ordered_files[1]])
                   \o LaterSlides(ordered_files, 2, deck, add_separator)

\* The lookup or run of a rasterizer at trace position i.
About(i, tool) == trace[i].cmd \in { <<"which", tool>>, <<"where", tool>>, <<tool>> }

\* C5: pdftoppm is tried first; convert is looked up or run only after
\* pdftoppm was not found, exited non-zero or raised; and once a rasterizer
\* exits with code 0 the call runs nothing further, so at most one
\* rasterizer run succeeds per call.
C5_FallbackOrder ==
    prog = "images" =>
        /\ \A i \in DOMAIN trace :
             About(i, "convert") =>
               /\ \E j \in 1..(i - 1) : About(j, "pdftoppm")
               /\ \A j \in 1..(i - 1) : About(j, "pdftoppm") /\ ExitedZero(trace[j])
                                          => trace[j].cmd # <<"pdftoppm">>
        /\ \A i \in Rasterized : i = Len(trace)
        /\ Cardinality(Rasterized) <= 1

\* get_user_choice has returned from its menu loop.
OrderChosen == prog = "merge" /\ pc \notin {"start", "choice"} /\ Len(pptx_files) >= 2

\* C6: with option 2 the returned ordered_files is a permutation of the
\* available pptx_files: every available file appears exactly once.  Stated
\* for the orders that go on to be merged.
C6_CustomOrderIsPermutation ==
    (OrderChosen /\ choice = <<"2">> /\ merge_called) =>
        \A f \in Range(pptx_files) :
            Cardinality({ k \in DOMAIN ordered_files : ordered_files[k] = f }) = 1

\* The typed answers that read as 'y' or 'yes'.
TypedYes == { <<"y">>, <<" ", "Y", "E", "S">> }

\* C7: merge_presentations is entered with an output path that exists only
\* after a 'y' or 'yes' at the overwrite prompt; any other answer ends the run
\* with "Merge cancelled." and nothing merged or saved.
C7_OverwriteGuard ==
    prog = "merge" =>
        /\ (merge_called /\ out_exists) => (overwrite.asked /\ overwrite.answer \in TypedYes)
        /\ (overwrite.asked /\ overwrite.answer \notin TypedYes) =>
             /\ pc = "done"
             /\ console = <<"Merge cancelled.">>
             /\ ~merge_called
             /\ ~saved
             /\ merged = <<>>

\* C7 witness: an existing output file overwritten after a yes.
C7_Witness ==
    /\ prog = "merge"
    /\ out_exists
    /\ overwrite.answer = <<" ", "Y", "E", "S">>
    /\ saved

\* line is the text of out up to its first line break.
IsFirstLine(line, out) ==
    /\ \A i \in DOMAIN line : line[i] # "\n"
    /\ \/ out = <<>> /\ line = <<>>
       \/ /\ Len(out) > Len(line)
          /\ SubSeq(out, 1, Len(line)) = line
          /\ out[Len(line) + 1] = "\n"

\* What C8 says find_libreoffice returned, read off the probes it made.
FoundAsClaimed ==
    LET paths == possible_paths(system)
        n == Len(probes)
    IN /\ n >= 1 /\ n <= Len(paths)
       /\ \A i \in 1..n : probes[i][1] = paths[i]
       /\ \A i \in 1..(n - 1) : ~probes[i][2]
       /\ IF probes[n][2]
          THEN soffice_path = Str(paths[n]) /\ which_obs = NotRun
          ELSE /\ n = Len(paths)
               /\ which_obs.kind \in {"exit", "raise"}
               /\ IF which_obs.kind = "exit" /\ which_obs.rc = 0
                  THEN ~soffice_path.isNone /\ IsFirstLine(soffice_path.s, which_obs.stdout)
                  ELSE soffice_path = None

\* C8: in both converters nothing is listed, created or converted before
\* LibreOffice is located, a failed search exits with status 1 at once, and
\* find_libreoffice returns the first existing candidate in listed order,
\* else the first line of a which/where lookup that exits 0, else None,
\* without raising.
C8_LocateFirst ==
    Converter =>
        /\ pc = "start" =>
             glob_result = <<>> /\ dirs = {} /\ calls = <<>> /\ trace = <<>>
        /\ pc # "start" => FoundAsClaimed
        /\ (pc # "start" /\ ~Truthy(soffice_path)) =>
             /\ pc = "exit"
             /\ exit_status = 1
             /\ glob_result = <<>> /\ dirs = {} /\ calls = <<>> /\ trace = <<>>
        /\ pc \notin {"start", "exit"} => Truthy(soffice_path)

\* C8 witness: no candidate exists and the lookup exits non-zero, so the
\* image converter exits with status 1.
C8_Witness ==
    /\ prog = "images"
    /\ pc = "exit"
    /\ exit_status = 1
    /\ Len(probes) = 2
    /\ which_obs.kind = "exit"
    /\ which_obs.rc = 1

\* The discovered files that are no "~$" lock files.
Discovered == { f \in Range(glob_result) : ~(f[1] = "~" /\ f[2] = "$") }

\* C9: every discovered file is passed to the convert function exactly once,
\* whatever earlier calls returned, and success_count is the number of calls
\* that returned True, between 0 and len(pptx_files) at every step.
C9_EveryFileOnceAndCounted ==
    Converter =>
        /\ Range(pptx_files) = Discovered
        /\ Len(pptx_files) = Cardinality(Discovered)
        /\ Len(calls) <= Len(pptx_files)
        /\ calls = SubSeq(pptx_files, 1, Len(calls))
        /\ success_count = Cardinality({ i \in DOMAIN returns : returns[i] })
        /\ 0 <= success_count /\ success_count <= Len(pptx_files)
        /\ summary.printed <=> (pc = "done" /\ pptx_files # <<>>)
        /\ summary.printed =>
             /\ summary = [printed |-> TRUE, success |-> success_count,
                           total |-> Len(pptx_files)]
             /\ calls = pptx_files
             /\ Len(returns) = Len(calls)

\* C9 witness: the summary after a failed call followed by a successful one.
C9_Witness ==
    /\ prog = "images"
    /\ summary.printed
    /\ returns = <<FALSE, TRUE>>
    /\ summary.success = 1
    /\ summary.total = 2

=============================================================================
